---------------------------- MODULE Spec2Model ----------------------------
(***************************************************************************)
(* Template Generator (tg): the tree processor (internal/template), the    *)
(* loading and validation of template descriptors (internal/config), the   *)
(* init and apply commands (internal/cli) and the file-system and          *)
(* text/template operations they are built on.                             *)
(*                                                                         *)
(* Strings are sequences of atoms (short strings that are never split);    *)
(* "/" is the path separator atom and an atom that is a key of FieldOf, or *)
(* a member of ChainActions or MalformedActions, is a {{...}} action of    *)
(* the template language.  A path is a sequence of names (atoms).          *)
(***************************************************************************)
EXTENDS Integers, Sequences, FiniteSets, TLC

VARIABLES
    fs,           \* the file system: path -> [kind, data, src]
    template,     \* Processor.template (the descriptor)
    variables,    \* Processor.variables (the binding map)
    templateDir,  \* argument of Process
    outputDir,    \* argument of Process
    pc,           \* position of Process ("idle", "walking", "done"), of
                  \* LoadTemplate and Validate ("parsed", "loaded",
                  \* "validated") or of a command ("shell")
    stack,        \* pending entries of filepath.WalkDir, innermost directory first
    result,       \* the ProcessResult being accumulated
    ret,          \* what the last Process returned: [result, err]
    runs,         \* number of Process invocations started
    trace,        \* history: one record per callback invocation of this run
    touched,      \* history: paths created or written by this run
    first,        \* history: inputs and outcome of the first run
    begun,        \* history: the file system when this run started
    desc,         \* the descriptor handed to Template.Validate
    verr,         \* the error Template.Validate returned (NoErr: none)
    decoded,      \* what toml.Unmarshal makes of the template's template.toml
    applyVariables, \* the --var overrides of the apply command
    initCall      \* history: the last init invocation

walkVars == <<fs, template, variables, templateDir, outputDir, pc, stack, result,
              ret, runs, trace, touched, first, begun>>
vars == <<fs, template, variables, templateDir, outputDir, pc, stack, result,
          ret, runs, trace, touched, first, begun, desc, verr,
          decoded, applyVariables, initCall>>
cliVars == <<decoded, applyVariables, initCall>>

-----------------------------------------------------------------------------
(* Bounds and program constants *)

MaxEntries == 3
MaxRuns == 2
MaxVars == 2

TemplateConfigFile == "template.toml"
Sep == "/"

-----------------------------------------------------------------------------
(* Sequence helpers *)

Last(s) == s[Len(s)]
Front(s) == SubSeq(s, 1, Len(s) - 1)
IsPrefix(p, q) == Len(p) <= Len(q) /\ SubSeq(q, 1, Len(p)) = p
Range(s) == {s[i] : i \in 1..Len(s)}

RECURSIVE Flatten(_)
Flatten(ss) == IF ss = <<>> THEN <<>> ELSE Head(ss) \o Flatten(Tail(ss))

-----------------------------------------------------------------------------
(* Path strings: path/filepath *)

RECURSIVE SplitFrom(_, _)
SplitFrom(s, cur) ==
    IF s = <<>> THEN (IF cur = <<>> THEN <<>> ELSE <<cur>>)
    ELSE IF Head(s) = Sep
         THEN (IF cur = <<>> THEN <<>> ELSE <<cur>>) \o SplitFrom(Tail(s), <<>>)
         ELSE SplitFrom(Tail(s), cur \o <<Head(s)>>)

\* The names of a path string; a name spelled by one atom is that atom, a name
\* spelled by several atoms in a row is kept as their sequence.
Names(parts) ==
    [i \in 1..Len(parts) |-> IF Len(parts[i]) = 1 THEN parts[i][1] ELSE parts[i]]

Split(s) == Names(SplitFrom(s, <<>>))

RECURSIVE PathString(_)
PathString(cs) ==
    IF cs = <<>> THEN <<>>
    ELSE IF Len(cs) = 1 THEN <<cs[1]>>
    ELSE <<cs[1], Sep>> \o PathString(Tail(cs))

\* filepath.Clean on the names of a relative path: "." dropped, ".." removes
\* the name before it (or stays when there is none); the empty path is ".".
RECURSIVE CleanFrom(_, _)
CleanFrom(cs, acc) ==
    IF cs = <<>> THEN acc
    ELSE IF Head(cs) = "." THEN CleanFrom(Tail(cs), acc)
    ELSE IF Head(cs) = ".." /\ acc # <<>> /\ Last(acc) # ".."
         THEN CleanFrom(Tail(cs), Front(acc))
         ELSE CleanFrom(Tail(cs), Append(acc, Head(cs)))

DotIfEmpty(cs) == IF cs = <<>> THEN <<".">> ELSE cs

Clean(cs) == DotIfEmpty(CleanFrom(cs, <<>>))

Join(a, b) == Clean(a \o b)

\* filepath.Rel(base, target) for a target that WalkDir built below base.
Rel(base, target) ==
    IF target = base THEN <<".">>
    ELSE SubSeq(target, Len(base) + 1, Len(target))

\* filepath.Dir of a path string: everything before the last name, cleaned.
Dir(s) ==
    IF s # <<>> /\ Last(s) = Sep THEN Clean(Split(s)) ELSE Clean(Front(Split(s)))

-----------------------------------------------------------------------------
(* text/template *)

\* {{.name}} actions: the field each one evaluates on the data map.
FieldOf ==
    ("{{.name}}" :> "name") @@ ("{{.project}}" :> "project") @@
    ("{{.missing}}" :> "missing")

\* {{.name.f}}: a field of a field; no value of the model has a field f, so
\* Execute fails on it ("can't evaluate field f", "nil pointer evaluating").
ChainActions == {"{{.name.f}}"}

\* An action that is never closed: Parse fails on it.
MalformedActions == {"{{.bad"}

NoValue == "<no value>"

\* What Execute prints for {{.field}} on a map[string]any: the value's text;
\* a key that is absent, or present with a nil value, prints "<no value>"
\* (the template is built without Option("missingkey=error")).
EvalField(data, field) ==
    IF field \in DOMAIN data /\ data[field].type # "nil"
    THEN data[field].text
    ELSE <<NoValue>>

ExecAtom(data, a) ==
    IF a \in DOMAIN FieldOf THEN EvalField(data, FieldOf[a]) ELSE <<a>>

\* Processor.processString: [err, out]; err is "" on success, else the phase
\* of text/template that failed ("parse" or "execute"), and out is then "".
processString(content, data) ==
    IF \E i \in 1..Len(content) : content[i] \in MalformedActions
    THEN [err |-> "parse", out |-> <<>>]
    ELSE IF \E i \in 1..Len(content) : content[i] \in ChainActions
    THEN [err |-> "execute", out |-> <<>>]
    ELSE [err |-> "",
          out |-> Flatten([i \in 1..Len(content) |-> ExecAtom(data, content[i])])]

\* The placeholders of a string that refer to no key of the data map.
MissingRefs(content, data) ==
    {i \in 1..Len(content) :
        content[i] \in DOMAIN FieldOf /\ FieldOf[content[i]] \notin DOMAIN data}

-----------------------------------------------------------------------------
(* The file system: os.Stat, os.Mkdir, os.MkdirAll, os.WriteFile, os.ReadDir *)

RootPath == <<>>
DirNode == [kind |-> "dir", data |-> <<>>, src |-> <<>>]
FileNode(data, src) == [kind |-> "file", data |-> data, src |-> src]

IsDirAt(f, p) == p \in DOMAIN f /\ f[p].kind = "dir"
IsFileAt(f, p) == p \in DOMAIN f /\ f[p].kind = "file"

\* Kernel path resolution from the working directory (the root of the model):
\* every name but the last must lead through an existing directory.
RECURSIVE ResolveFrom(_, _, _)
ResolveFrom(f, cur, cs) ==
    IF cs = <<>> THEN [ok |-> TRUE, path |-> cur]
    ELSE IF ~IsDirAt(f, cur) THEN [ok |-> FALSE, path |-> cur]
    ELSE IF Head(cs) = "." THEN ResolveFrom(f, cur, Tail(cs))
    ELSE IF Head(cs) = ".."
         THEN ResolveFrom(f, IF cur = RootPath THEN cur ELSE Front(cur), Tail(cs))
         ELSE ResolveFrom(f, Append(cur, Head(cs)), Tail(cs))

Resolve(f, cs) == ResolveFrom(f, RootPath, cs)

\* os.Stat: [ok, path]
StatOf(f, r) == [ok |-> r.ok /\ r.path \in DOMAIN f, path |-> r.path]
Stat(f, cs) == StatOf(f, Resolve(f, cs))

\* os.Mkdir: [err, fs, made]; pr is the resolution of the parent.
MkdirIn(f, cs, pr) ==
    IF cs = <<>> \/ ~pr.ok \/ ~IsDirAt(f, pr.path)
       \/ Last(cs) \in {".", ".."} \/ Append(pr.path, Last(cs)) \in DOMAIN f
    THEN [err |-> TRUE, fs |-> f, made |-> {}]
    ELSE [err |-> FALSE, fs |-> (Append(pr.path, Last(cs)) :> DirNode) @@ f,
          made |-> {Append(pr.path, Last(cs))}]

Mkdir(f, cs) == MkdirIn(f, cs, Resolve(f, Front(cs)))

\* os.MkdirAll: [err, fs, made].  Stat first (an existing directory is
\* success, an existing file an error); else MkdirAll of the parent string,
\* then Mkdir, and when Mkdir fails a second look: a directory there is success.
MkdirAllLast(up, mk, again) ==
    IF ~mk.err
    THEN [err |-> FALSE, fs |-> mk.fs, made |-> up.made \cup mk.made]
    ELSE [err |-> ~(again.ok /\ IsDirAt(up.fs, again.path)),
          fs |-> up.fs, made |-> up.made]

MkdirAllUp(cs, up) ==
    IF up.err THEN up ELSE MkdirAllLast(up, Mkdir(up.fs, cs), Stat(up.fs, cs))

RECURSIVE MkdirAll(_, _)
MkdirAllStat(f, cs, st) ==
    IF st.ok
    THEN [err |-> f[st.path].kind # "dir", fs |-> f, made |-> {}]
    ELSE MkdirAllUp(cs, IF Len(cs) > 1 THEN MkdirAll(f, Front(cs))
                        ELSE [err |-> FALSE, fs |-> f, made |-> {}])

MkdirAll(f, cs) == MkdirAllStat(f, cs, Stat(f, cs))

\* os.MkdirAll that may be refused by the system (fault "mkdir": permission
\* denied, nothing is created).
MkdirAllOrFault(f, cs, fault) ==
    IF fault = "mkdir" THEN [err |-> TRUE, fs |-> f, made |-> {}] ELSE MkdirAll(f, cs)

\* os.WriteFile: [err, fs, path].  It opens with O_CREATE|O_TRUNC and then
\* writes.  Fault "open": the open is refused, nothing changes; fault "short":
\* the write fails after the open (disk full), which leaves the file created
\* or truncated.
WriteFileIn(f, cs, data, src, fault, pr) ==
    IF cs = <<>> \/ ~pr.ok \/ ~IsDirAt(f, pr.path)
       \/ Last(cs) \in {".", ".."} \/ IsDirAt(f, Append(pr.path, Last(cs)))
       \/ fault = "open"
    THEN [err |-> TRUE, fs |-> f, path |-> <<>>]
    ELSE [err |-> fault = "short",
          fs |-> (Append(pr.path, Last(cs)) :>
                     FileNode(IF fault = "short" THEN <<>> ELSE data, src)) @@ f,
          path |-> Append(pr.path, Last(cs))]

WriteFile(f, cs, data, src, fault) ==
    WriteFileIn(f, cs, data, src, fault, Resolve(f, Front(cs)))

\* Byte order of the names that occur in the model.
NameOrder ==
    <<".", "..", "<no value>", "E", "O", "README.md", "T", "World", "a", "acme",
      "main.txt", "sub", "template.toml", "tg.config.toml", "x", "z.txt", "zz.txt",
      "{{.bad", "{{.missing}}", "{{.name.f}}", "{{.name}}", "{{.project}}">>

Rank(name) == CHOOSE i \in 1..Len(NameOrder) : NameOrder[i] = name

RECURSIVE SortNames(_)
SortNames(S) ==
    IF S = {} THEN <<>>
    ELSE LET m == CHOOSE x \in S : \A y \in S : Rank(x) <= Rank(y)
         IN  <<m>> \o SortNames(S \ {m})

\* os.ReadDir: the entries of a directory, sorted by file name.
DirEntries(f, p, sorted) ==
    [i \in 1..Len(sorted) |->
        [name |-> sorted[i], isDir |-> IsDirAt(f, Append(p, sorted[i]))]]

ReadDir(f, p) ==
    DirEntries(f, p, SortNames({q[Len(q)] : q \in {q \in DOMAIN f :
                                    Len(q) = Len(p) + 1 /\ IsPrefix(p, q)}}))

-----------------------------------------------------------------------------
(* Errors: the chain of fmt.Errorf wrappers, outermost first; each layer is  *)
(* the message and the one string it formats in (a path string, or "").     *)

NoErr == <<>>
Layer(msg, arg) == [msg |-> msg, arg |-> arg]
Wrap(msg, arg, inner) == <<Layer(msg, arg)>> \o inner
\* An *fs.PathError of the os package: the operation and the path it was given.
PathError(op, pathString) == <<Layer(op, pathString)>>
TemplateError(phase) ==
    <<Layer(IF phase = "parse" THEN "failed to parse template"
            ELSE "failed to execute template", <<>>)>>

-----------------------------------------------------------------------------
(* internal/template: Processor *)

EmptyResult == [FilesCreated |-> 0, DirsCreated |-> 0, CreatedFiles |-> <<>>]

\* A callback without the test of line 41 leaves no entry out.
IsSkippedNone(d) == FALSE

\* Line 41: the entries the callback leaves out.
IsSkipped(d) == d.name = TemplateConfigFile

\* The output path string had line 50 joined the paths and not rendered them.
OutputPathUnrendered(relativePath) ==
    [err |-> "", out |-> PathString(Join(outputDir, relativePath))]

\* Line 50: the output path string of an entry.
OutputPath(relativePath) ==
    processString(PathString(Join(outputDir, relativePath)), variables)

\* Line 59
CountDir(res) == [res EXCEPT !.DirsCreated = @ + 1]

\* Lines 67-68 had the parent directory of a written file been counted too.
CountFileAndParent(res, relativePath) ==
    [res EXCEPT !.FilesCreated = @ + 1, !.DirsCreated = @ + 1,
                !.CreatedFiles = Append(@, PathString(relativePath))]

\* Lines 67-68
CountFile(res, relativePath) ==
    [res EXCEPT !.FilesCreated = @ + 1,
                !.CreatedFiles = Append(@, PathString(relativePath))]

\* Processor.processFile(path, outputPath), lines 79-99: [err, fs, made, wrote]
\* Lines 94-98: the result of os.WriteFile.
processFileWritten(outputPath, parent, w) ==
    [err |-> IF w.err
             THEN Wrap("failed to write file", outputPath, PathError("open", outputPath))
             ELSE NoErr,
     fs |-> w.fs, made |-> parent.made, wrote |-> w.path]

\* Lines 90-96 had the file been opened with O_EXCL: an existing output file
\* is refused.
processFileWriteExclusive(path, outputPath, fault, processed, parent) ==
    IF parent.err
    THEN [err |-> Wrap("failed to create parent directory", <<>>,
                       PathError("mkdir", PathString(Dir(outputPath)))),
          fs |-> parent.fs, made |-> parent.made, wrote |-> <<>>]
    ELSE processFileWritten(outputPath, parent,
             WriteFile(parent.fs, Split(outputPath), processed.out, path,
                       IF Stat(parent.fs, Split(outputPath)).ok THEN "open" ELSE fault))

\* Lines 90-96: the result of os.MkdirAll on the parent, then os.WriteFile.
processFileWrite(path, outputPath, fault, processed, parent) ==
    IF parent.err
    THEN [err |-> Wrap("failed to create parent directory", <<>>,
                       PathError("mkdir", PathString(Dir(outputPath)))),
          fs |-> parent.fs, made |-> parent.made, wrote |-> <<>>]
    ELSE processFileWritten(outputPath, parent,
             WriteFile(parent.fs, Split(outputPath), processed.out, path, fault))

\* Lines 85-96 had the error of the rendering been returned after the write
\* and not before it.
RenderErrorAfter(processed, pf) ==
    IF processed.err # ""
    THEN [pf EXCEPT !.err = Wrap("failed to process template", <<>>,
                                 TemplateError(processed.err))]
    ELSE pf

processFileRenderedLate(f, path, outputPath, fault, processed) ==
    RenderErrorAfter(processed,
        processFileWrite(path, outputPath, fault, processed,
                         MkdirAllOrFault(f, Dir(outputPath), fault)))

\* Lines 85-92: the rendered content, then the parent directory.
processFileRendered(f, path, outputPath, fault, processed) ==
    IF processed.err # ""
    THEN [err |-> Wrap("failed to process template", <<>>, TemplateError(processed.err)),
          fs |-> f, made |-> {}, wrote |-> <<>>]
    ELSE processFileWrite(path, outputPath, fault, processed,
             MkdirAllOrFault(f, Dir(outputPath), fault))

\* The content of a file is rendered with the processor's binding map, line 85.
RenderContent(content) == processString(content, variables)

processFile(f, path, outputPath, fault) ==
    IF fault = "read" \/ ~IsFileAt(f, path)
    THEN [err |-> Wrap("failed to read file", PathString(path),
                       PathError("open", PathString(path))),
          fs |-> f, made |-> {}, wrote |-> <<>>]
    ELSE processFileRendered(f, path, outputPath, fault, RenderContent(f[path].data))

\* The history record of one call of the callback.
Rec(relativePath, d, act, out, target, made, data) ==
    [rel |-> relativePath, name |-> d.name, isDir |-> d.isDir, act |-> act,
     out |-> out, target |-> target, made |-> made, data |-> data,
     read |-> <<>>, fault |-> "none"]

\* The same with the content that os.ReadFile returned.
WithRead(r, f, path) ==
    [r EXCEPT !.rec.read = IF IsFileAt(f, path) THEN f[path].data ELSE <<>>]

\* Lines 55-61: a directory entry; m is the result of os.MkdirAll.
walkFnDir(res, relativePath, d, out, m) ==
    IF m.err
    THEN [err |-> Wrap("failed to create directory", out, PathError("mkdir", out)),
          fs |-> m.fs, result |-> res,
          rec |-> Rec(relativePath, d, "error", out, <<>>, m.made, <<>>)]
    ELSE [err |-> NoErr, fs |-> m.fs, result |-> CountDir(res),
          rec |-> Rec(relativePath, d, "mkdir", out,
                      Stat(m.fs, Split(out)).path, m.made, <<>>)]

\* Lines 63-70 had line 68 appended outputPath and not relativePath.
walkFnFileRendered(res, relativePath, d, out, pf) ==
    IF pf.err # NoErr
    THEN [err |-> Wrap("failed to process file", PathString(relativePath), pf.err),
          fs |-> pf.fs, result |-> res,
          rec |-> Rec(relativePath, d, "error", out, pf.wrote, pf.made, <<>>)]
    ELSE [err |-> NoErr, fs |-> pf.fs, result |-> CountFile(res, Split(out)),
          rec |-> Rec(relativePath, d, "write", out, pf.wrote, pf.made,
                      pf.fs[pf.wrote].data)]

\* Lines 63-70: a file entry; pf is the result of processFile.
walkFnFile(res, relativePath, d, out, pf) ==
    IF pf.err # NoErr
    THEN [err |-> Wrap("failed to process file", PathString(relativePath), pf.err),
          fs |-> pf.fs, result |-> res,
          rec |-> Rec(relativePath, d, "error", out, pf.wrote, pf.made, <<>>)]
    ELSE [err |-> NoErr, fs |-> pf.fs, result |-> CountFile(res, relativePath),
          rec |-> Rec(relativePath, d, "write", out, pf.wrote, pf.made,
                      pf.fs[pf.wrote].data)]

\* Lines 50-70: outputPath is the result of processString on the joined path.
walkFnRendered(f, res, path, d, fault, relativePath, outputPath) ==
    IF outputPath.err # ""
    THEN [err |-> Wrap("failed to process output path", <<d.name>>,
                       TemplateError(outputPath.err)),
          fs |-> f, result |-> res,
          rec |-> Rec(relativePath, d, "error", <<>>, <<>>, {}, <<>>)]
    ELSE IF d.isDir
    THEN walkFnDir(res, relativePath, d, outputPath.out,
                   MkdirAllOrFault(f, Split(outputPath.out), fault))
    ELSE WithRead(walkFnFile(res, relativePath, d, outputPath.out,
                             processFile(f, path, outputPath.out, fault)), f, path)

\* Lines 37-50
walkFnEntry(f, res, path, d, werr, fault, relativePath) ==
    IF werr # NoErr
    THEN [err |-> werr, fs |-> f, result |-> res,
          rec |-> Rec(relativePath, d, "error", <<>>, <<>>, {}, <<>>)]
    ELSE IF IsSkipped(d)
    THEN [err |-> NoErr, fs |-> f, result |-> res,
          rec |-> Rec(relativePath, d, "skip", <<>>, <<>>, {}, <<>>)]
    ELSE walkFnRendered(f, res, path, d, fault, relativePath, OutputPath(relativePath))

\* The callback Process hands to filepath.WalkDir, lines 36-71:
\* [err, fs, result, rec]; rec is the history record of the call.
walkFn(f, res, path, d, werr, fault) ==
    walkFnEntry(f, res, path, d, werr, fault, Rel(templateDir, path))

-----------------------------------------------------------------------------
(* The inputs: template trees, binding maps, descriptors, directories *)

TemplateRoot == <<"T">>

\* The entries a template tree is drawn from: path below the template root,
\* kind, and content.
Candidates ==
    { [rel |-> <<"template.toml">>, kind |-> "file", data |-> <<"[metadata]">>],
      [rel |-> <<"README.md">>, kind |-> "file", data |-> <<"Hello ", "{{.name}}", "!">>],
      [rel |-> <<"a">>, kind |-> "file", data |-> <<"plain">>],
      [rel |-> <<"{{.project}}">>, kind |-> "dir", data |-> <<>>],
      [rel |-> <<"{{.project}}", "main.txt">>, kind |-> "file",
       data |-> <<"pkg=", "{{.project}}">>],
      [rel |-> <<"sub">>, kind |-> "dir", data |-> <<>>],
      [rel |-> <<"sub", "template.toml">>, kind |-> "file", data |-> <<"nested">>],
      [rel |-> <<"sub", "x">>, kind |-> "file", data |-> <<"{{.name.f}}">>],
      [rel |-> <<"template.toml">>, kind |-> "dir", data |-> <<>>],
      [rel |-> <<"template.toml", "x">>, kind |-> "file", data |-> <<"inside">>],
      [rel |-> <<"z.txt">>, kind |-> "file", data |-> <<"v=", "{{.missing}}">>],
      [rel |-> <<"zz.txt">>, kind |-> "file", data |-> <<"{{.bad">>],
      [rel |-> <<"{{.missing}}">>, kind |-> "file", data |-> <<"m">>],
      [rel |-> <<"{{.name}}">>, kind |-> "file", data |-> <<"other">>] }

\* A template tree: one entry per path, each below the root or below a
\* directory of the tree.
IsTree(S) ==
    /\ \A e1, e2 \in S : e1.rel = e2.rel => e1 = e2
    /\ \A e \in S : Len(e.rel) > 1 =>
          \E p \in S : p.kind = "dir" /\ p.rel = Front(e.rel)

\* The sets of at most n candidate entries.
RECURSIVE EntrySets(_)
EntrySets(n) ==
    IF n = 0 THEN {{}}
    ELSE LET smaller == EntrySets(n - 1)
         IN  smaller \cup {S \cup {c} : S \in smaller, c \in Candidates}

\* The template trees of at most MaxEntries entries.
Trees == {S \in EntrySets(MaxEntries) : IsTree(S)}

Str(text) == [type |-> "string", text |-> text]

Bindings ==
    { ("name" :> Str(<<"World">>)) @@ ("project" :> Str(<<"acme">>)),
      ("name" :> Str(<<"World">>)) @@ ("project" :> Str(<<"..", Sep, "T">>)),
      ("name" :> Str(<<"a">>)) @@ ("project" :> Str(<<"a">>)) }

NoRules == [Ignores |-> <<>>, Includes |-> <<>>, Renames |-> <<>>]
SomeRules == [Ignores |-> <<"a", "sub", "{{.project}}">>,
              Includes |-> <<"README.md">>,
              Renames |-> <<[from |-> "README.md", to |-> "a"]>>]

Descriptor(name, variablesOf, rules) ==
    [Metadata |-> [Name |-> name], Variables |-> variablesOf, Rules |-> rules]

OutputDirs == {<<"O">>, <<"T">>}

-----------------------------------------------------------------------------
(* internal/config: Template.Validate *)

\* A value of Go's type any: its dynamic type and its text.
GoValue(type, text) == [type |-> type, text |-> text]
Nil == GoValue("nil", <<>>)

Variable(type, default) == [Type |-> type, Default |-> default]

\* validateValueType(value, expectedType), config.go lines 205-229
validateValueType(value, expectedType) ==
    IF expectedType = "string"
    THEN IF value.type = "string" THEN NoErr
         ELSE <<Layer("expected string", <<value.type>>)>>
    ELSE IF expectedType = "number"
    THEN IF value.type \in {"int", "int64", "float64"} THEN NoErr
         ELSE <<Layer("expected number", <<value.type>>)>>
    ELSE IF expectedType = "boolean"
    THEN IF value.type = "bool" THEN NoErr
         ELSE <<Layer("expected boolean", <<value.type>>)>>
    ELSE IF expectedType = "array"
    THEN IF value.type \in {"[]interface {}", "[]string"} THEN NoErr
         ELSE <<Layer("expected array", <<value.type>>)>>
    ELSE NoErr

validTypes == <<"string", "number", "boolean", "array">>

\* Lines 196-200: the default of a variable against its declared type.
validateDefault(name, inner) ==
    IF inner # NoErr THEN Wrap("default value error", <<name>>, inner) ELSE NoErr

\* validateVariable had line 196 not asked whether there is a default.
validateVariableAnyDefault(name, v) ==
    IF v.Type # "" /\ v.Type \notin Range(validTypes)
    THEN <<Layer("invalid type", <<name, v.Type>>)>>
    ELSE IF v.Type # ""
    THEN validateDefault(name, validateValueType(v.Default, v.Type))
    ELSE NoErr

\* validateVariable(name, v), config.go lines 181-203
validateVariable(name, v) ==
    IF v.Type # "" /\ v.Type \notin Range(validTypes)
    THEN <<Layer("invalid type", <<name, v.Type>>)>>
    ELSE IF v.Default # Nil /\ v.Type # ""
    THEN validateDefault(name, validateValueType(v.Default, v.Type))
    ELSE NoErr

\* Template.Validate, config.go lines 161-179: the errors it may return.  The
\* loop ranges over a map, whose order Go leaves open: the error is that of
\* whichever failing variable the loop meets first.
Validate(t) ==
    IF t.Metadata.Name = ""
    THEN {<<Layer("template name is required", <<>>)>>}
    ELSE IF \A n \in DOMAIN t.Variables : validateVariable(n, t.Variables[n]) = NoErr
    THEN {NoErr}
    ELSE {validateVariable(n, t.Variables[n]) : n \in DOMAIN t.Variables} \ {NoErr}

\* The variables of a decoded descriptor as LoadTemplate leaves them, config.go
\* lines 114-119: a variable without a type is given the type "any".
TypeOrAny(v) == IF v.Type = "" THEN [v EXCEPT !.Type = "any"] ELSE v

\* The descriptor LoadTemplate returns for a decoded one, lines 106-121: an
\* empty name becomes filepath.Base(dir).
Loaded(dir, unmarshalled) ==
    [unmarshalled EXCEPT
        !.Metadata.Name = IF @ = "" THEN Last(dir) ELSE @,
        !.Variables = [n \in DOMAIN @ |-> TypeOrAny(@[n])]]

\* What toml.Unmarshal returns for a file that is not TOML, and the template
\* of a LoadTemplate that failed (nil).
Undecodable == [undecodable |-> TRUE]
NoTemplate == [nil |-> TRUE]

\* LoadTemplate(dir), config.go lines 93-122, on the file system f, where
\* unmarshalled is what toml.Unmarshal makes of the file: [err, template]
LoadTemplate(f, dir, unmarshalled) ==
    IF ~IsFileAt(f, Join(dir, <<TemplateConfigFile>>))
    THEN [err |-> Wrap("failed to read template config file", <<>>,
                       PathError("open", PathString(Join(dir, <<TemplateConfigFile>>)))),
          template |-> NoTemplate]
    ELSE IF unmarshalled = Undecodable
    THEN [err |-> <<Layer("failed to parse template config file", <<>>)>>,
          template |-> NoTemplate]
    ELSE [err |-> NoErr, template |-> Loaded(dir, unmarshalled)]

\* The descriptors handed to Validate: with and without a name, up to MaxVars
\* variables, every declared type the code tells apart, and defaults of every
\* Go type a decoded or constructed descriptor holds.
VarNames == <<"project", "port", "tags", "debug">>
DeclaredTypes == {"", "string", "number", "boolean", "array", "any"}
DefaultValues ==
    {Nil, GoValue("string", <<"acme">>),
     GoValue("int", <<"8080">>), GoValue("int64", <<"0">>),
     GoValue("float64", <<"1.5">>), GoValue("bool", <<"false">>),
     GoValue("[]interface {}", <<"a", "b">>), GoValue("[]string", <<>>),
     GoValue("map[string]interface {}", <<>>)}
VariableDecls == {Variable(t, d) : t \in DeclaredTypes, d \in DefaultValues}
VariableMaps ==
    UNION {[{VarNames[i] : i \in 1..k} -> VariableDecls] : k \in 0..MaxVars}
Descriptors ==
    {Descriptor(name, vs, SomeRules) : name \in {"", "t"}, vs \in VariableMaps}

\* The descriptors toml.Unmarshal decodes from a template.toml: the defaults
\* are of the Go types the decoder produces.
DecodedValues ==
    {Nil, GoValue("string", <<"acme">>), GoValue("int64", <<"0">>),
     GoValue("float64", <<"1.5">>), GoValue("bool", <<"false">>),
     GoValue("[]interface {}", <<"a", "b">>),
     GoValue("map[string]interface {}", <<>>)}
DecodedDecls == {Variable(t, d) : t \in DeclaredTypes, d \in DecodedValues}
DecodedMaps ==
    UNION {[{VarNames[i] : i \in 1..k} -> DecodedDecls] : k \in 0..MaxVars}
DecodedFiles ==
    {Descriptor(name, vs, NoRules) : name \in {"", "t"}, vs \in DecodedMaps}

\* The file system holding a template tree at TemplateRoot and an empty
\* output directory O (apply creates it before Process runs).
EntryAt(S, p) == CHOOSE e \in S : TemplateRoot \o e.rel = p

InitialFs(S) ==
    [p \in {RootPath, TemplateRoot, <<"O">>} \cup {TemplateRoot \o e.rel : e \in S} |->
        IF p \in {RootPath, TemplateRoot, <<"O">>} \/ EntryAt(S, p).kind = "dir"
        THEN DirNode
        ELSE FileNode(EntryAt(S, p).data, <<>>)]

-----------------------------------------------------------------------------
(* Process and the walk of filepath.WalkDir *)

NoReturn == [result |-> <<>>, err |-> NoErr]
NoCall == <<>>
NoFirst == [start |-> <<>>, end |-> <<>>, ret |-> <<>>, clean |-> FALSE]

Faults == {"none", "mkdir", "read", "open", "short", "readdir"}

Init ==
    /\ \E S \in Trees : fs = InitialFs(S)
    /\ \E rules \in {NoRules, SomeRules} :
          template = Descriptor("t", << >>, rules)
    /\ variables \in Bindings
    /\ templateDir = TemplateRoot
    /\ outputDir \in OutputDirs
    /\ pc = "idle"
    /\ stack = <<>>
    /\ result = EmptyResult
    /\ ret = NoReturn
    /\ runs = 0
    /\ trace = <<>>
    /\ touched = {}
    /\ first = NoFirst
    /\ begun = fs
    /\ desc = template
    /\ verr = NoErr
    /\ decoded = template
    /\ applyVariables = << >>
    /\ initCall = NoCall

\* The paths a callback created or wrote.
Touched(rec) ==
    rec.made \cup (IF rec.target # <<>> /\ rec.act # "mkdir" THEN {rec.target} ELSE {})

\* Process, lines 31-36, and filepath.WalkDir's os.Lstat of the root.
\* lstatFails: the root cannot be examined; the callback is called with the
\* error and returns it (lines 37-39), and Process returns it (lines 73-75).
\* Process is run again, with the same arguments, after a run that succeeded.
ProcessStart ==
    /\ pc = "idle" \/ (pc = "done" /\ ret.err = NoErr)
    /\ runs < MaxRuns
    /\ runs' = runs + 1
    /\ result' = EmptyResult
    /\ trace' = <<>>
    /\ touched' = {}
    /\ first' = IF runs = 0 THEN [NoFirst EXCEPT !.start = <<fs>>]
                ELSE first
    /\ begun' = fs
    /\ \E lstatFails \in BOOLEAN :
          IF lstatFails \/ templateDir \notin DOMAIN fs
          THEN /\ pc' = "done"
               /\ stack' = <<>>
               /\ ret' = [result |-> <<>>,
                          err |-> PathError("lstat", PathString(templateDir))]
          ELSE /\ pc' = "walking"
               /\ stack' = <<[path |-> templateDir,
                              d |-> [name |-> Last(templateDir),
                                     isDir |-> IsDirAt(fs, templateDir)]]>>
               /\ ret' = NoReturn
    /\ UNCHANGED <<fs, template, variables, templateDir, outputDir, desc, verr, cliVars>>

\* filepath.walkDir on the next pending entry: the callback; for a directory
\* the callback accepted, os.ReadDir and its entries, in order, before the
\* rest; an error of ReadDir is handed to the callback in a second call.
\* Whatever error the callback returns ends the walk and Process returns
\* (nil, err), lines 73-75.  fault is the operation the system refuses in this
\* step, if any; only a fault that changes the step is drawn.
\* The pending entries for the listing of a directory.
Children(path, listing) ==
    [i \in 1..Len(listing) |->
        [path |-> Join(path, <<listing[i].name>>), d |-> listing[i]]]

\* The error that ends the walk at entry e, or NoErr: the callback's, or the
\* one it returns when it is called again with the error of os.ReadDir.
Failure(e, r, fault) ==
    IF r.err # NoErr THEN r.err
    ELSE IF e.d.isDir /\ fault = "readdir"
         THEN walkFn(r.fs, r.result, e.path, e.d,
                     PathError("open", PathString(e.path)), "none").err
         ELSE NoErr

\* Does the fault change the step?
Struck(e, r, unfaulted, fault) ==
    IF e.d.isDir /\ r.err = NoErr THEN fault = "readdir" ELSE r # unfaulted

WalkStep(e, r, failed, fault) ==
    /\ fs' = r.fs
    /\ trace' = Append(trace, [r.rec EXCEPT !.fault = fault])
    /\ touched' = touched \cup Touched(r.rec)
    /\ result' = r.result
    /\ IF failed # NoErr
       THEN /\ pc' = "done"
            /\ stack' = <<>>
            /\ ret' = [result |-> <<>>, err |-> failed]
            /\ first' = IF runs = 1
                        THEN [first EXCEPT !.end = <<r.fs>>,
                                !.ret = <<[result |-> <<>>, err |-> failed]>>]
                        ELSE first
       ELSE /\ pc' = "walking"
            /\ stack' = (IF e.d.isDir THEN Children(e.path, ReadDir(r.fs, e.path))
                         ELSE <<>>) \o Tail(stack)
            /\ ret' = ret
            /\ first' = first

WalkFault(e, r, unfaulted, fault) ==
    /\ fault = "none" \/ Struck(e, r, unfaulted, fault)
    /\ WalkStep(e, r, Failure(e, r, fault), fault)

WalkEntry ==
    /\ pc = "walking"
    /\ stack # <<>>
    /\ \E fault \in Faults :
          WalkFault(Head(stack),
                    walkFn(fs, result, Head(stack).path, Head(stack).d, NoErr, fault),
                    walkFn(fs, result, Head(stack).path, Head(stack).d, NoErr, "none"),
                    fault)
    /\ UNCHANGED <<template, variables, templateDir, outputDir, runs, begun, desc, verr, cliVars>>

\* Process, line 76: the walk is over and the result is returned.
ProcessReturn ==
    /\ pc = "walking"
    /\ stack = <<>>
    /\ pc' = "done"
    /\ ret' = [result |-> <<result>>, err |-> NoErr]
    /\ first' = IF runs = 1
                THEN [first EXCEPT !.end = <<fs>>,
                        !.ret = <<[result |-> <<result>>, err |-> NoErr]>>,
                        !.clean = \A i \in 1..Len(trace) : trace[i].fault = "none"]
                ELSE first
    /\ UNCHANGED <<fs, template, variables, templateDir, outputDir, stack, result,
                   runs, trace, touched, begun, desc, verr, cliVars>>

Next == ProcessStart \/ WalkEntry \/ ProcessReturn

Spec == Init /\ [][Next]_vars

-----------------------------------------------------------------------------
(* Validation of a descriptor *)

\* A descriptor has been built; template keeps a copy of it as it was.
InitValidate ==
    /\ desc \in Descriptors
    /\ template = desc
    /\ verr = NoErr
    /\ pc = "loaded"
    /\ fs = InitialFs({})
    /\ variables = << >>
    /\ templateDir = TemplateRoot
    /\ outputDir = <<"O">>
    /\ stack = <<>>
    /\ result = EmptyResult
    /\ ret = NoReturn
    /\ runs = 0
    /\ trace = <<>>
    /\ touched = {}
    /\ first = NoFirst
    /\ begun = InitialFs({})
    /\ decoded = desc
    /\ applyVariables = << >>
    /\ initCall = NoCall

\* t.Validate(): reads the descriptor and assigns to none of its fields.
DoValidate ==
    /\ pc = "loaded"
    /\ verr' \in Validate(desc)
    /\ pc' = "validated"
    /\ UNCHANGED <<fs, template, variables, templateDir, outputDir, stack, result,
                   ret, runs, trace, touched, first, begun, desc, cliVars>>

NextValidate == DoValidate

SpecValidate == InitValidate /\ [][NextValidate]_vars

-----------------------------------------------------------------------------
(* Loading a descriptor and validating what was loaded *)

DescriptorEntry ==
    [rel |-> <<TemplateConfigFile>>, kind |-> "file", data |-> <<"[metadata]">>]

\* A template directory with or without a template.toml, which decodes to
\* one of DecodedFiles or does not decode.
InitLoad ==
    /\ \E S \in {{}, {DescriptorEntry}} :
          /\ fs = InitialFs(S)
          /\ decoded \in IF S = {} THEN {Undecodable}
                         ELSE DecodedFiles \cup {Undecodable}
    /\ template = NoTemplate
    /\ desc = NoTemplate
    /\ verr = NoErr
    /\ pc = "parsed"
    /\ variables = << >>
    /\ templateDir = TemplateRoot
    /\ outputDir = <<"O">>
    /\ stack = <<>>
    /\ result = EmptyResult
    /\ ret = NoReturn
    /\ runs = 0
    /\ trace = <<>>
    /\ touched = {}
    /\ first = NoFirst
    /\ begun = fs
    /\ applyVariables = << >>
    /\ initCall = NoCall

\* tmpl, err := config.LoadTemplate(templateDir); template keeps a copy of
\* the descriptor as it was returned.
Load(l) ==
    /\ ret' = [result |-> <<>>, err |-> l.err]
    /\ desc' = l.template
    /\ template' = l.template
    /\ pc' = IF l.err = NoErr THEN "loaded" ELSE "done"

DoLoadTemplate ==
    /\ pc = "parsed"
    /\ Load(LoadTemplate(fs, templateDir, decoded))
    /\ UNCHANGED <<fs, variables, templateDir, outputDir, stack, result, runs,
                   trace, touched, first, begun, verr, cliVars>>

NextLoad == DoLoadTemplate \/ DoValidate

SpecLoad == InitLoad /\ [][NextLoad]_vars

-----------------------------------------------------------------------------
(* internal/cli: tg.config.toml and the init command *)

\* The --config flag's default, part_000 line 170.
ConfigPath == <<"tg.config.toml">>
DefaultTemplateDir == ".tg"

\* The text createConfigFile formats around the directory, init.go lines
\* 70-82: up to and with the opening quote, and from the closing quote on.
ConfigHead == "# Template Generator Configuration ... templates_dir = \""
ConfigTail == "\" ... # license = \"MIT\""

\* createConfigFile's content: the directory is formatted in with %s, as it is.
ConfigContent(dir) == <<ConfigHead>> \o dir \o <<ConfigTail>>

\* A TOML basic string: a quote inside it ends it (what follows is a syntax
\* error) and a backslash starts an escape (\t is a tab).
QuoteAtoms == {"my\"dir"}
TomlEscapes == ("win\\tg" :> "win\tg")
BasicString(body) ==
    [ok |-> \A i \in 1..Len(body) : body[i] \notin QuoteAtoms,
     value |-> [i \in 1..Len(body) |->
                  IF body[i] \in DOMAIN TomlEscapes THEN TomlEscapes[body[i]]
                  ELSE body[i]]]

\* toml.Unmarshal of a config file into Config: [ok, TemplatesDir].  A file
\* without the key (an empty one) decodes with an empty TemplatesDir.
UnmarshalConfig(data) ==
    IF data = <<>> THEN [ok |-> TRUE, TemplatesDir |-> <<>>]
    ELSE IF Len(data) >= 2 /\ Head(data) = ConfigHead /\ Last(data) = ConfigTail
    THEN [ok |-> BasicString(SubSeq(data, 2, Len(data) - 1)).ok,
          TemplatesDir |-> BasicString(SubSeq(data, 2, Len(data) - 1)).value]
    ELSE [ok |-> FALSE, TemplatesDir |-> <<>>]

\* config.Load(path), config.go lines 54-74: [err, TemplatesDir]
LoadConfig(f, path) ==
    IF ~IsFileAt(f, path)
    THEN [err |-> Wrap("failed to read config file", <<>>,
                       PathError("open", PathString(path))),
          TemplatesDir |-> <<>>]
    ELSE IF ~UnmarshalConfig(f[path].data).ok
    THEN [err |-> <<Layer("failed to parse config file", <<>>)>>,
          TemplatesDir |-> <<>>]
    ELSE [err |-> NoErr,
          TemplatesDir |-> IF UnmarshalConfig(f[path].data).TemplatesDir = <<>>
                           THEN <<DefaultTemplateDir>>
                           ELSE UnmarshalConfig(f[path].data).TemplatesDir]

\* runInit, init.go lines 43-67: [err, fs]
\* Lines 57-66: m is the result of os.MkdirAll(initTemplatesDir).
runInitDir(m) ==
    [err |-> IF m.err
             THEN <<Layer("failed to create templates directory", <<>>)>>
             ELSE NoErr,
     fs |-> m.fs]

\* Lines 52-66: w is the result of createConfigFile's os.WriteFile.
runInitWritten(w, dir, fault) ==
    IF w.err
    THEN [err |-> <<Layer("failed to create config file", <<>>)>>, fs |-> w.fs]
    ELSE runInitDir(MkdirAllOrFault(w.fs, Split(dir), fault))

runInit(f, force, dir, fault) ==
    IF ~force /\ Stat(f, ConfigPath).ok
    THEN [err |-> <<Layer("config file already exists", PathString(ConfigPath))>>,
          fs |-> f]
    ELSE runInitWritten(WriteFile(f, ConfigPath, ConfigContent(dir), <<>>, fault),
                        dir, fault)

\* The values of --templates-dir.
InitDirs == {<<".tg">>, <<"templates">>, <<"win\\tg">>, <<"my\"dir">>}

\* The working directory before the first init: empty, or with a config file
\* of an earlier init, and with or without a file named templates.
InitFs(withConfig, withFile) ==
    (RootPath :> DirNode)
    @@ (IF withConfig THEN ConfigPath :> FileNode(ConfigContent(<<".tg">>), <<>>)
        ELSE << >>)
    @@ (IF withFile THEN <<"templates">> :> FileNode(<<"plain">>, <<>>) ELSE << >>)

InitInit ==
    /\ \E withConfig, withFile \in BOOLEAN : fs = InitFs(withConfig, withFile)
    /\ initCall = NoCall
    /\ pc = "shell"
    /\ template = NoTemplate
    /\ desc = NoTemplate
    /\ decoded = Undecodable
    /\ verr = NoErr
    /\ variables = << >>
    /\ applyVariables = << >>
    /\ templateDir = TemplateRoot
    /\ outputDir = <<"O">>
    /\ stack = <<>>
    /\ result = EmptyResult
    /\ ret = NoReturn
    /\ runs = 0
    /\ trace = <<>>
    /\ touched = {}
    /\ first = NoFirst
    /\ begun = fs

\* One invocation of tg init; fault is the operation the system refuses.
Call(force, dir, fault, r) ==
    /\ fs' = r.fs
    /\ initCall' = <<[force |-> force, dir |-> dir, fault |-> fault,
                      existed |-> Stat(fs, ConfigPath).ok, err |-> r.err]>>
    /\ begun' = fs

RunInit ==
    /\ pc = "shell"
    /\ \E force \in BOOLEAN, dir \in InitDirs, fault \in {"none", "open", "short", "mkdir"} :
          /\ fault = "none" \/ runInit(fs, force, dir, fault) # runInit(fs, force, dir, "none")
          /\ Call(force, dir, fault, runInit(fs, force, dir, fault))
    /\ UNCHANGED <<template, variables, templateDir, outputDir, pc, stack, result,
                   ret, runs, trace, touched, first, desc, verr, decoded,
                   applyVariables>>

NextInit == RunInit

SpecInit == InitInit /\ [][NextInit]_vars

-----------------------------------------------------------------------------
(* internal/cli: the apply command *)

\* The key of the file system a cleaned relative path names.
AtPath(cs) == IF cs = <<".">> THEN RootPath ELSE cs

\* resolveTemplateDir, apply.go lines 116-133: the scan of the templates
\* directory for a template whose name is the requested one; entries is what
\* is left of the listing.  [err, dir, template]
RECURSIVE scanTemplates(_, _, _, _, _)
scanLoaded(f, templatesDir, requestedName, unmarshalled, entries, dir, l) ==
    IF l.err # NoErr
    THEN [err |-> Wrap("failed to load template", <<>>, l.err),
          dir |-> <<>>, template |-> NoTemplate]
    ELSE IF l.template.Metadata.Name = requestedName
    THEN [err |-> NoErr, dir |-> dir, template |-> l.template]
    ELSE scanTemplates(f, templatesDir, requestedName, unmarshalled, Tail(entries))

scanTemplates(f, templatesDir, requestedName, unmarshalled, entries) ==
    IF entries = <<>>
    THEN [err |-> <<Layer("template not found", <<requestedName>>)>>,
          dir |-> <<>>, template |-> NoTemplate]
    ELSE IF ~Head(entries).isDir
            \/ ~Stat(f, Join(templatesDir, <<Head(entries).name, TemplateConfigFile>>)).ok
    THEN scanTemplates(f, templatesDir, requestedName, unmarshalled, Tail(entries))
    ELSE scanLoaded(f, templatesDir, requestedName, unmarshalled, entries,
                    Join(templatesDir, <<Head(entries).name>>),
                    LoadTemplate(f, Join(templatesDir, <<Head(entries).name>>),
                                 unmarshalled))

\* Lines 103-107: the directory named as requested holds a template.toml.
resolveCandidate(candidateDir, l) ==
    IF l.err # NoErr
    THEN [err |-> Wrap("failed to load template", <<>>, l.err),
          dir |-> <<>>, template |-> NoTemplate]
    ELSE [err |-> NoErr, dir |-> candidateDir, template |-> l.template]

\* Lines 111-133
resolveScan(f, templatesDir, requestedName, unmarshalled) ==
    IF ~IsDirAt(f, AtPath(templatesDir))
    THEN [err |-> Wrap("failed to read templates directory", <<>>,
                       PathError("open", PathString(templatesDir))),
          dir |-> <<>>, template |-> NoTemplate]
    ELSE scanTemplates(f, templatesDir, requestedName, unmarshalled,
                       ReadDir(f, AtPath(templatesDir)))

\* resolveTemplateDir(cfg, requestedName), apply.go lines 99-134, where
\* templatesDir is the cleaned cfg.TemplatesDir.
resolveTemplateDir(f, templatesDir, requestedName, unmarshalled) ==
    IF /\ IsDirAt(f, Join(templatesDir, <<requestedName>>))
       /\ Stat(f, Join(templatesDir, <<requestedName, TemplateConfigFile>>)).ok
    THEN resolveCandidate(Join(templatesDir, <<requestedName>>),
                          LoadTemplate(f, Join(templatesDir, <<requestedName>>),
                                       unmarshalled))
    ELSE resolveScan(f, templatesDir, requestedName, unmarshalled)

\* Lines 63-70 had the two loops been in the other order: a declared default
\* replaces the --var value.
BindDefaultsLast(declared, overrides) ==
    [n \in DOMAIN declared |-> declared[n].Default]
    @@ [k \in DOMAIN overrides |-> GoValue("string", overrides[k])]

\* runApply, lines 63-70: the defaults of the declared variables, then the
\* --var values (Go strings) over them.
Bind(declared, overrides) ==
    [k \in DOMAIN overrides |-> GoValue("string", overrides[k])]
    @@ [n \in DOMAIN declared |-> declared[n].Default]

\* The inputs of apply: template trees, what their template.toml decodes to,
\* and the --var values.
EntryOf(rel, kind) == CHOOSE c \in Candidates : c.rel = rel /\ c.kind = kind
ApplyTrees ==
    { {EntryOf(<<TemplateConfigFile>>, "file"), EntryOf(<<"README.md">>, "file")},
      {EntryOf(<<TemplateConfigFile>>, "file"), EntryOf(<<"{{.project}}">>, "dir"),
       EntryOf(<<"{{.project}}", "main.txt">>, "file")},
      {EntryOf(<<"README.md">>, "file")} }
ApplyFiles ==
    { Descriptor("t", << >>, NoRules),
      Descriptor("t", ("name" :> Variable("string", Str(<<"World">>)))
                      @@ ("project" :> Variable("", Str(<<"acme">>))), NoRules),
      Descriptor("t", ("name" :> Variable("number", Str(<<"abc">>))), NoRules),
      Descriptor("t", ("name" :> Variable("integer", GoValue("int64", <<"7">>))),
                 SomeRules),
      Descriptor("", ("name" :> Variable("string", Nil))
                     @@ ("project" :> Variable("string", Str(<<"acme">>))), NoRules),
      Undecodable }
ApplyOverrides ==
    { << >>, "name" :> <<"a">>,
      ("project" :> <<"a">>) @@ ("missing" :> <<"x">>) }
TemplateNames == {"T", "t", "E"}

InitApply ==
    /\ \E S \in ApplyTrees, configured \in BOOLEAN :
          fs = InitialFs(S) @@ (IF configured
                                THEN ConfigPath :> FileNode(ConfigContent(<<".">>), <<>>)
                                ELSE << >>)
    /\ decoded \in ApplyFiles
    /\ applyVariables \in ApplyOverrides
    /\ outputDir \in OutputDirs
    /\ templateDir = <<>>
    /\ template = NoTemplate
    /\ variables = << >>
    /\ desc = NoTemplate
    /\ verr = NoErr
    /\ initCall = NoCall
    /\ pc = "shell"
    /\ stack = <<>>
    /\ result = EmptyResult
    /\ ret = NoReturn
    /\ runs = 0
    /\ trace = <<>>
    /\ touched = {}
    /\ first = NoFirst
    /\ begun = fs

\* runApply returns an error before Process is called.
ApplyFail(err) ==
    /\ pc' = "done"
    /\ ret' = [result |-> <<>>, err |-> err]
    /\ UNCHANGED <<fs, template, variables, templateDir, stack, result, runs,
                   trace, touched, first, begun>>

\* Lines 80-81: NewProcessor and Process (as ProcessStart) on what was
\* resolved, after the output directory was created.
ApplyProcess(r, f, lstatFails) ==
    /\ fs' = f
    /\ template' = r.template
    /\ variables' = Bind(r.template.Variables, applyVariables)
    /\ templateDir' = r.dir
    /\ runs' = runs + 1
    /\ result' = EmptyResult
    /\ trace' = <<>>
    /\ touched' = {}
    /\ first' = [NoFirst EXCEPT !.start = <<f>>]
    /\ begun' = f
    /\ IF lstatFails
       THEN /\ pc' = "done"
            /\ stack' = <<>>
            /\ ret' = [result |-> <<>>, err |-> PathError("lstat", PathString(r.dir))]
       ELSE /\ pc' = "walking"
            /\ stack' = <<[path |-> r.dir,
                           d |-> [name |-> Last(r.dir), isDir |-> IsDirAt(f, r.dir)]]>>
            /\ ret' = NoReturn

\* Lines 76-78: m is the result of os.MkdirAll(applyOutputPath).
ApplyMkdir(r, m) ==
    IF m.err
    THEN ApplyFail(Wrap("failed to create output directory", <<>>,
                        PathError("mkdir", PathString(outputDir))))
    ELSE \E lstatFails \in BOOLEAN : ApplyProcess(r, m.fs, lstatFails)

\* Lines 55-78: r is the result of resolveTemplateDir.
ApplyResolved(r) ==
    IF r.err # NoErr THEN ApplyFail(r.err) ELSE ApplyMkdir(r, MkdirAll(fs, outputDir))

\* Lines 50-78: cfg is the result of config.Load.
ApplyLoaded(cfg, templateName) ==
    IF cfg.err # NoErr
    THEN ApplyFail(Wrap("failed to load config", <<>>, cfg.err))
    ELSE ApplyResolved(resolveTemplateDir(fs, Clean(Split(cfg.TemplatesDir)),
                                          templateName, decoded))

\* tg apply <template-name> -o outputDir --var ...: runApply, lines 41-81, up
\* to the walk of Process; the walk goes on with WalkEntry and ProcessReturn.
RunApply ==
    /\ pc = "shell"
    /\ \E templateName \in TemplateNames :
          ApplyLoaded(LoadConfig(fs, ConfigPath), templateName)
    /\ UNCHANGED <<outputDir, desc, verr, cliVars>>

NextApply == RunApply \/ WalkEntry \/ ProcessReturn

SpecApply == InitApply /\ [][NextApply]_vars

-----------------------------------------------------------------------------
(* Vocabulary of the properties *)

Failed == pc = "done" /\ ret.err # NoErr
Succeeded == pc = "done" /\ runs >= 1 /\ ret.err = NoErr

\* The step that ends a walk with an error.
FailingStep == pc = "walking" /\ pc' = "done" /\ ret'.err # NoErr

\* Did the system refuse an operation in this run?
LstatFailed == ret.err # NoErr /\ ret.err[1].msg = "lstat"
Faulted == LstatFailed \/ \E i \in 1..Len(trace) : trace[i].fault # "none"

\* The unrendered output path string of an entry.
JoinedPath(rel) == PathString(Join(outputDir, rel))

\* The paths strictly below a directory.
Below(f, root) == {p \in DOMAIN f : Len(p) > Len(root) /\ IsPrefix(root, p)}

\* A file system or a template tree without the history fields.
Plain(f) == [p \in DOMAIN f |-> [kind |-> f[p].kind, data |-> f[p].data]]
TemplateTree(f) ==
    [p \in Below(f, templateDir) |-> [kind |-> f[p].kind, data |-> f[p].data]]

DescriptorPath == Append(templateDir, TemplateConfigFile)
OnlyDescriptor(f) ==
    Below(f, templateDir) = {DescriptorPath} /\ IsFileAt(f, DescriptorPath)

IsRenderFailure(err) ==
    \E i \in 1..Len(err) :
        err[i].msg \in {"failed to parse template", "failed to execute template"}

Done(rec) == rec.act \in {"mkdir", "write"}

-----------------------------------------------------------------------------
(* C1 *)

\* C1: no string that refers to a variable absent from the binding map is
\* rendered successfully: a step of the walk whose path or content holds such
\* a reference fails, so Process fails on a template that holds one.
C1_MissingKeyFails ==
    \A i \in 1..Len(trace) :
        Done(trace[i]) =>
            /\ MissingRefs(JoinedPath(trace[i].rel), variables) = {}
            /\ MissingRefs(trace[i].read, variables) = {}

-----------------------------------------------------------------------------
(* C2 *)

\* What every failing step does: Process returns an error and no result,
\* nothing is left pending (no later entry is rendered, created or written),
\* and a render failure writes nothing.
FailsFast ==
    /\ ret'.result = <<>>
    /\ stack' = <<>>
    /\ IsRenderFailure(ret'.err) => fs' = fs

\* The outputs of the earlier entries are as they were before the failing step.
EarlierOutputsKept == \A p \in touched : p \in DOMAIN fs' /\ fs'[p] = fs[p]

\* The same, but for the output path of the failing entry itself, which a
\* write that fails after the open leaves truncated.
EarlierOutputsKeptElsewhere ==
    \A p \in touched :
        /\ p \in DOMAIN fs'
        /\ fs'[p] = fs[p]
           \/ /\ p = trace'[Len(trace')].target
              /\ ret'.err[Len(ret'.err) - 1].msg = "failed to write file"

\* C2 (as claimed): Process is fail-fast: the step that fails ends the walk,
\* Process returns an error and a nil result, a render failure writes no
\* output, and every output produced for the earlier entries is unchanged.
C2_FailFast ==
    [][FailingStep => FailsFast /\ EarlierOutputsKept]_vars

\* C2 (amended): the same, where the outputs of the earlier entries are
\* unchanged except a file at the failing entry's own output path when the
\* failure is a write failure.
C2_FailFastAmended ==
    [][FailingStep => FailsFast /\ EarlierOutputsKeptElsewhere]_vars

\* A render failure of a content after an earlier file was written and while
\* an entry of the template is still to be visited.
C2_Witness ==
    /\ Failed
    /\ IsRenderFailure(ret.err)
    /\ ret.err[1].msg = "failed to process file"
    /\ \E i \in 1..Len(trace) :
          trace[i].act = "write" /\ IsFileAt(fs, trace[i].target)
    /\ \E p \in Below(begun, templateDir) :
          \A i \in 1..Len(trace) : Rel(templateDir, p) # trace[i].rel

-----------------------------------------------------------------------------
(* C3 *)

\* C3: every directory created and every file written by Process lies inside
\* outputRootDir, and nothing under templateRootDir is created or modified.
C3_Confined ==
    \A p \in touched : IsPrefix(outputDir, p) /\ ~IsPrefix(templateDir, p)

-----------------------------------------------------------------------------
(* C4 *)

\* C4: no file of the output is written from the template's descriptor file,
\* the descriptor's relative path is not in createdFiles, and Process on a
\* template that consists of the descriptor alone succeeds with
\* filesCreated = 0 and createdFiles empty (unless the system refuses an
\* operation).
C4_DescriptorExcluded ==
    /\ \A p \in DOMAIN fs : fs[p].src # DescriptorPath
    /\ \A i \in 1..Len(result.CreatedFiles) :
          result.CreatedFiles[i] # <<TemplateConfigFile>>
    /\ \A i \in 1..Len(trace) :
          trace[i].rel = <<TemplateConfigFile>> => ~Done(trace[i])
    /\ (pc = "done" /\ runs >= 1 /\ OnlyDescriptor(begun) /\ ~Faulted) =>
          /\ ret.err = NoErr
          /\ ret.result[1].FilesCreated = 0
          /\ ret.result[1].CreatedFiles = <<>>

\* Process succeeded on a template that holds the descriptor and one more
\* file: the file is in the output, the descriptor is not.
C4_Witness ==
    /\ Succeeded
    /\ IsFileAt(begun, DescriptorPath)
    /\ ret.result[1].FilesCreated = 1
    /\ \E i \in 1..Len(trace) : trace[i].rel = <<TemplateConfigFile>>

-----------------------------------------------------------------------------
(* C5 *)

\* C5: on success dirsCreated is the number of directory entries below
\* templateRootDir, the root itself not counted (0 for a root that holds only
\* files, 1 for a root that holds one sub-directory).
C5_DirsBelowRoot ==
    Succeeded =>
        ret.result[1].DirsCreated =
            Cardinality({p \in Below(begun, templateDir) : begun[p].kind = "dir"})

-----------------------------------------------------------------------------
(* C6 *)

\* C6: every entry that was materialized is at the rendering of outputRootDir
\* joined with its relative path, is of the entry's kind and holds no
\* placeholder in its path; when the rendered path differs from the unrendered
\* one, nothing was created at the unrendered one; and the content of a file
\* is its template content rendered with the same binding map.
C6_RenderedPaths ==
    \A i \in 1..Len(trace) :
        Done(trace[i]) =>
            /\ trace[i].out = processString(JoinedPath(trace[i].rel), variables).out
            /\ Resolve(fs, Split(trace[i].out)) = [ok |-> TRUE, path |-> trace[i].target]
            /\ IF trace[i].isDir THEN IsDirAt(fs, trace[i].target)
               ELSE IsFileAt(fs, trace[i].target)
            /\ \A k \in 1..Len(trace[i].target) :
                  trace[i].target[k] \notin DOMAIN FieldOf
            /\ trace[i].out # JoinedPath(trace[i].rel) =>
                  Join(outputDir, trace[i].rel) \notin Touched(trace[i])
            /\ ~trace[i].isDir =>
                  trace[i].data = processString(trace[i].read, variables).out

\* Scenario B: the directory {{.project}} holding main.txt is in the output
\* as acme/main.txt with the content pkg=acme.
C6_Witness ==
    /\ Succeeded
    /\ outputDir = <<"O">>
    /\ \E i \in 1..Len(trace) :
          /\ trace[i].rel = <<"{{.project}}", "main.txt">>
          /\ trace[i].target = <<"O", "acme", "main.txt">>
    /\ IsFileAt(fs, <<"O", "acme", "main.txt">>)
    /\ fs[<<"O", "acme", "main.txt">>].data = <<"pkg=", "acme">>
    /\ <<"O", "{{.project}}">> \notin DOMAIN fs

-----------------------------------------------------------------------------
(* C7 *)

\* C7: a run of Process that follows a successful run on the same template
\* tree, with the same bindings and output directory, succeeds (unless the
\* system refuses an operation), returns what the first run returned and
\* leaves the paths and contents of the file system as the first run left them.
C7_SecondRunSame ==
    (/\ pc = "done"
     /\ runs >= 2
     /\ ~Faulted
     /\ TemplateTree(begun) = TemplateTree(first.start[1])) =>
        /\ ret.err = NoErr
        /\ ret = first.ret[1]
        /\ Plain(fs) = Plain(first.end[1])

\* A second run ended, on an unchanged template with a directory and a file.
C7_Witness ==
    /\ pc = "done"
    /\ runs = 2
    /\ ~Faulted
    /\ TemplateTree(begun) = TemplateTree(first.start[1])
    /\ ret.result[1].FilesCreated >= 1
    /\ ret.result[1].DirsCreated >= 2

-----------------------------------------------------------------------------
(* C8 *)

\* The relative path of the entry the walk was at when it failed.
FailingRel == IF trace = <<>> THEN <<".">> ELSE trace[Len(trace)].rel

ProcessPhases ==
    {"failed to process output path", "failed to create directory",
     "failed to process file"}

\* C8: every error Process returns is wrapped with the phase that failed and
\* with the template-relative path of the entry being processed.
C8_ErrorsWrapped ==
    Failed =>
        /\ ret.err[1].msg \in ProcessPhases
        /\ \E i \in 1..Len(ret.err) : ret.err[i].arg = PathString(FailingRel)

-----------------------------------------------------------------------------
(* C9 *)

\* The entries of the template when the run began, but the descriptor file in
\* the template root.
EntriesOf(kind) ==
    {p \in Below(begun, templateDir) : begun[p].kind = kind /\ p # DescriptorPath}

\* C9: whatever the descriptor's rules are, a successful Process has written
\* every file of the template but the descriptor in the template root and
\* lists exactly their relative paths in createdFiles, and has created a
\* directory for every directory entry.
C9_EveryEntryProcessed ==
    Succeeded =>
        /\ Range(ret.result[1].CreatedFiles) =
              {PathString(Rel(templateDir, p)) : p \in EntriesOf("file")}
        /\ \A p \in EntriesOf("dir") :
              \E i \in 1..Len(trace) :
                  trace[i].rel = Rel(templateDir, p) /\ trace[i].act = "mkdir"

-----------------------------------------------------------------------------
(* C10 *)

\* The shape of a default value, as the descriptor format has it.
ShapeOf(value) ==
    IF value.type = "string" THEN "text"
    ELSE IF value.type \in {"int", "int64"} THEN "integer"
    ELSE IF value.type = "float64" THEN "float"
    ELSE IF value.type = "bool" THEN "boolean"
    ELSE IF value.type \in {"[]interface {}", "[]string"} THEN "sequence"
    ELSE IF value.type = "nil" THEN "absent"
    ELSE "other"

ShapesOfType ==
    [string |-> {"text"}, number |-> {"integer", "float"},
     boolean |-> {"boolean"}, array |-> {"sequence"}]

UndeclarableType(v) == v.Type # "" /\ v.Type \notin DOMAIN ShapesOfType
MismatchedDefault(v) ==
    /\ v.Type \in DOMAIN ShapesOfType
    /\ ShapeOf(v.Default) # "absent"
    /\ ShapeOf(v.Default) \notin ShapesOfType[v.Type]

-----------------------------------------------------------------------------
(* C11 *)

\* The variable an error of Validate is about, if it is about one.
IsAbout(err, n) == err # NoErr /\ Len(err[1].arg) >= 1 /\ err[1].arg[1] = n

\* C11: Validate of a descriptor that LoadTemplate returned does not fail
\* because of a variable that the config file declares without a type,
\* whatever the default of that variable is.
C11_UntypedAcceptsAny ==
    pc = "validated" =>
        \A n \in DOMAIN decoded.Variables :
            decoded.Variables[n].Type = "" => ~IsAbout(verr, n)

-----------------------------------------------------------------------------
(* C14 *)

\* C14: after any init invocation that the system refused nothing: if it was
\* run without --force while the config file existed, it returned an error
\* and the file system is as before; otherwise the config file holds
\* templates_dir equal to the requested directory and that directory exists.
C14_InitForce ==
    \A i \in 1..Len(initCall) :
        initCall[i].fault = "none" =>
            IF ~initCall[i].force /\ initCall[i].existed
            THEN initCall[i].err # NoErr /\ fs = begun
            ELSE /\ LoadConfig(fs, ConfigPath).err = NoErr
                 /\ LoadConfig(fs, ConfigPath).TemplatesDir = initCall[i].dir
                 /\ IsDirAt(fs, Split(initCall[i].dir))

-----------------------------------------------------------------------------
(* C12 *)

\* C12: the descriptor that apply hands to Process passes Validate: a
\* template.toml with a variable of an unrecognized type, or with a default
\* that does not match its type, is refused when it is loaded.
C12_ValidatedAtLoad == runs >= 1 => Validate(template) = {NoErr}

-----------------------------------------------------------------------------
(* C13 *)

-----------------------------------------------------------------------------
(* C15 *)

\* The record of the callback invocation a step of the walk adds.
NewRec == trace'[Len(trace')]
IsWalkStep == Len(trace') = Len(trace) + 1

\* The relative path of the directory an entry is in.
ParentRel(rel) == IF Len(rel) = 1 THEN <<".">> ELSE Front(rel)

DirSteps(t) == {j \in 1..Len(t) : t[j].act = "mkdir"}

\* When a file is written the directory it is written into exists: it was
\* there before the step or the step made it.
ParentBeforeFile ==
    NewRec.act = "write" =>
        /\ IsDirAt(fs', Front(NewRec.target))
        /\ IsDirAt(fs, Front(NewRec.target)) \/ Front(NewRec.target) \in NewRec.made

\* An entry is processed after the directory it is in: that directory's step
\* came earlier and, unless it was skipped, its output directory exists.
DirBeforeEntries ==
    NewRec.rel # <<".">> =>
        \E j \in 1..Len(trace) :
            /\ trace[j].rel = ParentRel(NewRec.rel)
            /\ trace[j].isDir
            /\ trace[j].act \in {"mkdir", "skip"}
            /\ trace[j].act = "mkdir" => IsDirAt(fs, trace[j].target)

\* dirsCreated counts the directory steps, not the directories that a file
\* step made on the way to its file.
OnlyDirStepsCounted == result'.DirsCreated = Cardinality(DirSteps(trace'))

\* C15: the walk is pre-order and creates directories before the files in
\* them: at every step of the walk the three statements above hold.
C15_DirsBeforeFiles ==
    [][IsWalkStep => ParentBeforeFile /\ DirBeforeEntries /\ OnlyDirStepsCounted]_vars

\* A file below a directory whose step was skipped was written, its parent
\* made by the file step, and only the root was counted.
C15_Witness ==
    /\ Succeeded
    /\ \E i \in 1..Len(trace) :
          /\ trace[i].act = "write"
          /\ trace[i].made # {}
          /\ Len(trace[i].rel) = 2
    /\ \E i \in 1..Len(trace) : trace[i].act = "skip" /\ trace[i].isDir
    /\ ret.result[1].DirsCreated = 1

-----------------------------------------------------------------------------
(* C16 *)

IsWritten(rec) == rec.act = "write"

\* The relative path strings of the files written so far, in walk order.
WrittenRels == [i \in 1..Len(SelectSeq(trace, IsWritten)) |->
                   PathString(SelectSeq(trace, IsWritten)[i].rel)]

ManifestExact ==
    /\ result.FilesCreated = Len(result.CreatedFiles)
    /\ result.CreatedFiles = WrittenRels
    /\ \A i, j \in 1..Len(result.CreatedFiles) :
          result.CreatedFiles[i] = result.CreatedFiles[j] => i = j

ManifestGrows ==
    runs' = runs =>
        /\ result'.FilesCreated >= result.FilesCreated
        /\ IsPrefix(result.CreatedFiles, result'.CreatedFiles)

\* C16: at every point of the walk filesCreated is the length of
\* createdFiles, createdFiles is the unrendered relative paths of the files
\* written so far in walk order, each once, and within a run both only grow.
C16_Manifest == []ManifestExact /\ [][ManifestGrows]_vars

\* Two files of the template were written to one output path and both are
\* in createdFiles.
C16_Witness ==
    /\ Succeeded
    /\ \E i, j \in 1..Len(trace) :
          /\ i < j
          /\ trace[i].act = "write" /\ trace[j].act = "write"
          /\ trace[i].target = trace[j].target
    /\ ret.result[1].FilesCreated = 2
    /\ Len(ret.result[1].CreatedFiles) = 2

=============================================================================
